---- MODULE Spec2Model ----
(***************************************************************************)
(* Differential Drive Simulator: the main loop of simulator.main           *)
(* (src/src/simulator.py), i.e. the command queue, the kinematic           *)
(* integrator, the frame recorder and the pause / scrub playback logic.    *)
(*                                                                         *)
(* Numbers.  The program computes with floats; the model computes exactly  *)
(* on a grid on which every operation of the loop is exact:                *)
(*   - a distance (step_size, remaining_distance, wheel_circumference) is  *)
(*     an integer number of units u;                                       *)
(*   - robot_width is chosen as 2u/pi, so that theta = sign*step/          *)
(*     robot_width is `step` quarter turns; a heading is an integer number *)
(*     of quarter turns (not reduced modulo a full turn, as in the code)   *)
(*     and math.sin / math.cos are the exact table Sin / Cos;              *)
(*   - half_robot_width (= u/pi) is incommensurable with u, so a           *)
(*     coordinate is a pair <<s, w>> standing for s*u + w*half_robot_width.*)
(* The camera (scroll_x, scroll_y, zoom) and the pygame drawing calls do   *)
(* not feed back into the simulation state and are left out.               *)
(***************************************************************************)
EXTENDS Integers, Sequences, FiniteSets, TLC

\* ------------------------------------------------------------------ bounds
\* longest movement list enumerated
MaxCmds == 2
\* largest rotation count of a movement
MaxRot == 1

\* ------------------------------------------------------- robot parameters
\* RobotParameters.wheel_circumference = pi * wheel_diameter, in units u
wheel_circumference == 3
\* RobotParameters.axle_offset, in half_robot_widths (negative: the
\* reference point is behind the axle, as in run_simulator.py)
axle_offset == -1
\* RobotParameters.half_robot_width, in half_robot_widths
half_robot_width == 1
\* RobotParameters.step_size values enumerated, in units u
StepSizes == {2, 4}
\* InitialConditions.heading values enumerated, in quarter turns
InitHeadings == {1}

Directions == {"forward", "backward"}
Wheels == {"left", "right", "both"}
\* a movement is the tuple (direction, wheels, no. wheel rotations);
\* rotation counts are positive
Movement == [direction : Directions, wheel : Wheels, rotations : 1..MaxRot]

RECURSIVE SeqsUpTo(_, _)
SeqsUpTo(S, n) ==
    IF n = 0 THEN {<<>>}
    ELSE LET shorter == SeqsUpTo(S, n - 1)
         IN  shorter \cup {Append(q, e) : q \in {p \in shorter : Len(p) = n - 1}, e \in S}

MovementLists == SeqsUpTo(Movement, MaxCmds)

\* --------------------------------------------------------------- numbers
Min(a, b) == IF a < b THEN a ELSE b
Max(a, b) == IF a > b THEN a ELSE b

\* math.sin / math.cos of a heading given in quarter turns
Sin(h) == CASE h % 4 = 0 -> 0 [] h % 4 = 1 -> 1 [] h % 4 = 2 -> 0 [] OTHER -> -1
Cos(h) == CASE h % 4 = 0 -> 1 [] h % 4 = 1 -> 0 [] h % 4 = 2 -> -1 [] OTHER -> 0

\* coordinates s*u + w*half_robot_width
Zero == <<0, 0>>
Units(n) == <<n, 0>>
Widths(n) == <<0, n>>
Plus(a, b) == <<a[1] + b[1], a[2] + b[2]>>
Minus(a, b) == <<a[1] - b[1], a[2] - b[2]>>
Times(k, a) == <<k * a[1], k * a[2]>>

VARIABLES
    movements, show_turns, step_size,
    x, y, heading, axle_x, axle_y,
    movement_index, remaining_distance, active_wheel_command,
    direction_sign, previous_wheel,
    instruction_markers, frames, path,
    paused, frame_index, sim_frame_index, simulation_finished,
    scrubbing, scrubbing_direction, sim_frame_index_before_scrub,
    running

config == <<movements, show_turns, step_size>>
pose == <<x, y, heading, axle_x, axle_y>>
command == <<movement_index, remaining_distance, active_wheel_command,
             direction_sign, previous_wheel>>
sim == <<pose, command, instruction_markers, path>>
playback == <<paused, frame_index, sim_frame_index, simulation_finished,
              scrubbing, scrubbing_direction, sim_frame_index_before_scrub>>
vars == <<config, sim, frames, playback, running>>

\* ---------------------------------------------------------- frame recorder
\* the dictionary record_frame() builds from the live variables
Snapshot(px, py, h, ax, ay, mi, rd, awc, ds, im) ==
    [x |-> px, y |-> py, heading |-> h, axle_x |-> ax, axle_y |-> ay,
     movement_index |-> mi, remaining_distance |-> rd,
     active_wheel_command |-> awc, direction_sign |-> ds,
     instruction_markers |-> im]

\* mutant of RecordFrame: the newest frame is overwritten instead of appended to
RecordFrameOverwrite(fs, f) ==
    IF fs = <<>> THEN <<f>> ELSE [fs EXCEPT ![Len(fs)] = f]

\* frames.append(...)
RecordFrame(fs, f) == Append(fs, f)

\* ------------------------------------------------------ kinematic integrator
\* mutant of StepOf: the step is not clamped to the remaining distance
StepOfUnclamped(size, remaining) == size

\* step = min(params.step_size, remaining_distance)
StepOf(size, remaining) == Min(size, remaining)

\* theta = direction_sign * step / params.robot_width, in quarter turns
Theta(ds, step) == ds * step

\* mutant of TurnHeading: the signs of the two wheels are exchanged
TurnHeadingSwapped(h, awc, theta) == IF awc = "left" THEN h - theta ELSE h + theta

\* heading after a pivot step: += theta for "left", -= theta otherwise
TurnHeading(h, awc, theta) == IF awc = "left" THEN h + theta ELSE h - theta

\* reference point recomputed from the axle position after a pivot step
\* (the code evaluates it before the heading is updated)
ReferenceFromAxle(a, trig) == Plus(Widths(axle_offset * trig), a)

\* mutant of Integrate: a straight step forgets to move the axle midpoint
IntegrateAxleLags(px, py, h, ax, ay, awc, ds, step) ==
    IF awc = "both"
    THEN LET dx == Units(Sin(h) * step * ds)
             dy == Units(Cos(h) * step * ds)
         IN  [x |-> Plus(px, dx), y |-> Plus(py, dy), heading |-> h,
              axle_x |-> ax, axle_y |-> ay]
    ELSE LET theta == Theta(ds, step)
             pivot_x == Minus(ax, Widths(half_robot_width * Cos(h)))
             pivot_y == Plus(ay, Widths(half_robot_width * Sin(h)))
             dx_local == Widths(half_robot_width * Cos(h))
             dy_local == Widths(-half_robot_width * Sin(h))
             x_rel_pivot == Minus(Times(Cos(theta), dx_local), Times(Sin(theta), dy_local))
             y_rel_pivot == Plus(Times(Sin(theta), dx_local), Times(Cos(theta), dy_local))
             nax == Plus(pivot_x, x_rel_pivot)
             nay == Plus(pivot_y, y_rel_pivot)
         IN  [x |-> ReferenceFromAxle(nax, Sin(h)),
              y |-> ReferenceFromAxle(nay, Cos(h)),
              heading |-> TurnHeading(h, awc, theta),
              axle_x |-> nax, axle_y |-> nay]

\* one integrator step of the main loop: the pose after moving `step`
Integrate(px, py, h, ax, ay, awc, ds, step) ==
    IF awc = "both"
    THEN LET dx == Units(Sin(h) * step * ds)
             dy == Units(Cos(h) * step * ds)
         IN  [x |-> Plus(px, dx), y |-> Plus(py, dy), heading |-> h,
              axle_x |-> Plus(ax, dx), axle_y |-> Plus(ay, dy)]
    ELSE LET theta == Theta(ds, step)
             pivot_x == Minus(ax, Widths(half_robot_width * Cos(h)))
             pivot_y == Plus(ay, Widths(half_robot_width * Sin(h)))
             dx_local == Widths(half_robot_width * Cos(h))
             dy_local == Widths(-half_robot_width * Sin(h))
             cos_theta == Cos(theta)
             sin_theta == Sin(theta)
             x_rel_pivot == Minus(Times(cos_theta, dx_local), Times(sin_theta, dy_local))
             y_rel_pivot == Plus(Times(sin_theta, dx_local), Times(cos_theta, dy_local))
             nax == Plus(pivot_x, x_rel_pivot)
             nay == Plus(pivot_y, y_rel_pivot)
         IN  [x |-> ReferenceFromAxle(nax, Sin(h)),
              y |-> ReferenceFromAxle(nay, Cos(h)),
              heading |-> TurnHeading(h, awc, theta),
              axle_x |-> nax, axle_y |-> nay]

\* ------------------------------------------------------------ command queue
\* a command is popped when the active one is used up and one is left
PopDue(rd, mi, n) == rd <= 0 /\ mi < n

\* direction_sign = 1 if direction == "forward" else -1
SignOf(direction) == IF direction = "forward" THEN 1 ELSE -1

\* remaining_distance = rotations * params.wheel_circumference
TargetDistance(rotations) == rotations * wheel_circumference

\* display.show_turns and wheel_cmd != previous_wheel
MarkerDue(show, wheel_cmd, prev) == show /\ wheel_cmd # prev

\* movement_index >= len(movements) and remaining_distance <= 0
FinishedNow(mi, n, rd) == mi >= n /\ rd <= 0

\* ------------------------------------------------------ playback controller
\* mutant of ClampIndex: the lower clamp is missing
ClampIndexNoFloor(i, n) == Min(n - 1, i)

\* max(0, min(len(frames) - 1, new_frame_index))
ClampIndex(i, n) == Max(0, Min(n - 1, i))

\* mutant of ScrubActive: scrubbing is honoured only while paused
ScrubActiveOnlyPaused(scr, p, fin) == scr /\ p

\* if scrubbing and (paused or simulation_finished)
ScrubActive(scr, p, fin) == scr /\ (p \/ fin)

\* mutant of AdvanceDue: the finished flag is not consulted
AdvanceDueIgnoringFinished(p, scr, fin) == ~p /\ ~scr

\* if not paused and not scrubbing and not simulation_finished
AdvanceDue(p, scr, fin) == ~p /\ ~scr /\ ~fin

\* the display index after the scrub block of one loop iteration
Scrubbed(fi, dir, n) == ClampIndex(fi + dir * 1, n)

\* mutant of ResumeIndex: resume keeps the scrubbed-to display index
ResumeIndexScrubbed(before, fi) == fi

\* the index restored on resume: sim_frame_index = sim_frame_index_before_scrub
ResumeIndex(before, fi) == before

\* -------------------------------------------------------------------- Init
Init ==
    /\ movements \in MovementLists
    /\ show_turns \in BOOLEAN
    /\ step_size \in StepSizes
    /\ x = Zero
    /\ y = Zero
    /\ heading \in InitHeadings
    /\ axle_x = Minus(x, Widths(axle_offset * Sin(heading)))
    /\ axle_y = Minus(y, Widths(axle_offset * Cos(heading)))
    /\ movement_index = 0
    /\ remaining_distance = 0
    /\ active_wheel_command = "None"
    /\ direction_sign = 1
    /\ previous_wheel = "None"
    /\ instruction_markers = <<>>
    /\ paused = FALSE
    /\ frame_index = 0
    /\ sim_frame_index = 0
    /\ simulation_finished = FALSE
    /\ scrubbing = FALSE
    /\ scrubbing_direction = 0
    /\ sim_frame_index_before_scrub = 0
    /\ frames = RecordFrame(<<>>, Snapshot(x, y, heading, axle_x, axle_y, 0, 0,
                                           "None", 1, <<>>))
    /\ path = <<<<x, y>>>>
    /\ running = TRUE

\* ------------------------------------------------------------------ events
\* mutant of KeySpace: a resume does not end a scrub that is under way
KeySpaceKeepsScrub ==
    /\ running
    /\ paused' = ~paused
    /\ IF paused'
       THEN /\ sim_frame_index_before_scrub' = sim_frame_index
            /\ UNCHANGED <<sim_frame_index, frame_index, scrubbing, scrubbing_direction>>
       ELSE /\ sim_frame_index' = ResumeIndex(sim_frame_index_before_scrub, frame_index)
            /\ frame_index' = sim_frame_index'
            /\ UNCHANGED <<scrubbing, scrubbing_direction, sim_frame_index_before_scrub>>
    /\ UNCHANGED <<config, sim, frames, simulation_finished, running>>

\* KEYDOWN K_SPACE: toggle pause; remember the index, or restore it
KeySpace ==
    /\ running
    /\ paused' = ~paused
    /\ IF paused'
       THEN /\ sim_frame_index_before_scrub' = sim_frame_index
            /\ UNCHANGED <<sim_frame_index, frame_index, scrubbing, scrubbing_direction>>
       ELSE /\ sim_frame_index' = ResumeIndex(sim_frame_index_before_scrub, frame_index)
            /\ frame_index' = sim_frame_index'
            /\ scrubbing' = FALSE
            /\ scrubbing_direction' = 0
            /\ UNCHANGED sim_frame_index_before_scrub
    /\ UNCHANGED <<config, sim, frames, simulation_finished, running>>

\* mutant of KeyBracket: the key starts a scrub whatever the controller state
KeyBracketUnguarded(dir) ==
    /\ running
    /\ scrubbing' = TRUE
    /\ scrubbing_direction' = dir
    /\ sim_frame_index_before_scrub' = sim_frame_index
    /\ UNCHANGED <<config, sim, frames, paused, frame_index, sim_frame_index,
                   simulation_finished, running>>

\* KEYDOWN K_LEFTBRACKET (dir = -1) or K_RIGHTBRACKET (dir = 1)
KeyBracket(dir) ==
    /\ running
    /\ IF paused \/ simulation_finished
       THEN /\ scrubbing' = TRUE
            /\ scrubbing_direction' = dir
            /\ sim_frame_index_before_scrub' = sim_frame_index
       ELSE UNCHANGED <<scrubbing, scrubbing_direction, sim_frame_index_before_scrub>>
    /\ UNCHANGED <<config, sim, frames, paused, frame_index, sim_frame_index,
                   simulation_finished, running>>

KeyLeftBracket == KeyBracket(-1)

KeyRightBracket == KeyBracket(1)

\* KEYUP of either bracket key
KeyUpBracket ==
    /\ running
    /\ scrubbing' = FALSE
    /\ scrubbing_direction' = 0
    /\ UNCHANGED <<config, sim, frames, paused, frame_index, sim_frame_index,
                   simulation_finished, sim_frame_index_before_scrub, running>>

\* QUIT or KEYDOWN K_ESCAPE: the loop ends after this iteration
Quit ==
    /\ running
    /\ running' = FALSE
    /\ UNCHANGED <<config, sim, frames, playback>>

\* ---------------------------------------------------------- loop iteration
\* the simulation block of one iteration, entered with display index fi
Advance ==
    LET n == Len(movements)
        pop == PopDue(remaining_distance, movement_index, n)
        cmd == movements[movement_index + 1]
        ds1 == IF pop THEN SignOf(cmd.direction) ELSE direction_sign
        rd1 == IF pop THEN TargetDistance(cmd.rotations) ELSE remaining_distance
        awc1 == IF pop THEN cmd.wheel ELSE active_wheel_command
        mark == pop /\ MarkerDue(show_turns, cmd.wheel, previous_wheel)
        pw1 == IF mark THEN cmd.wheel ELSE previous_wheel
        im1 == IF mark THEN Append(instruction_markers, <<x, y>>)
                       ELSE instruction_markers
        mi1 == IF pop THEN movement_index + 1 ELSE movement_index
        moving == rd1 > 0
        step == StepOf(step_size, rd1)
        p1 == IF moving
              THEN Integrate(x, y, heading, axle_x, axle_y, awc1, ds1, step)
              ELSE [x |-> x, y |-> y, heading |-> heading,
                    axle_x |-> axle_x, axle_y |-> axle_y]
        rd2 == IF moving THEN rd1 - step ELSE rd1
    IN  /\ direction_sign' = ds1
        /\ active_wheel_command' = awc1
        /\ previous_wheel' = pw1
        /\ instruction_markers' = im1
        /\ movement_index' = mi1
        /\ x' = p1.x
        /\ y' = p1.y
        /\ heading' = p1.heading
        /\ axle_x' = p1.axle_x
        /\ axle_y' = p1.axle_y
        /\ remaining_distance' = rd2
        /\ path' = IF moving THEN Append(path, <<p1.x, p1.y>>) ELSE path
        /\ simulation_finished' =
               (simulation_finished \/ FinishedNow(mi1, n, rd2))
        /\ frames' = RecordFrame(frames,
               Snapshot(p1.x, p1.y, p1.heading, p1.axle_x, p1.axle_y,
                        mi1, rd2, awc1, ds1, im1))
        /\ sim_frame_index' = Len(frames') - 1
        /\ frame_index' = sim_frame_index'

\* one iteration of the main loop after its events: scrub, simulate, draw
Tick ==
    /\ running
    /\ IF AdvanceDue(paused, scrubbing, simulation_finished)
       THEN Advance
       ELSE /\ frame_index' =
                  IF ScrubActive(scrubbing, paused, simulation_finished)
                  THEN Scrubbed(frame_index, scrubbing_direction, Len(frames))
                  ELSE frame_index
            /\ UNCHANGED <<sim, frames, sim_frame_index, simulation_finished>>
    /\ UNCHANGED <<config, paused, scrubbing, scrubbing_direction,
                   sim_frame_index_before_scrub, running>>

\* mutant of DrawFrame: the draw block shows the live state, not the frame
\* selected by the display index
DrawFrameLive ==
    Snapshot(x, y, heading, axle_x, axle_y, movement_index, remaining_distance,
             active_wheel_command, direction_sign, instruction_markers)

\* the points the draw block hands to pygame.draw.lines: the whole path list
\* (drawn when display.show_path is set and it holds more than one point)
DrawPath == path

\* the frame the draw block reads: f = frames[frame_index]
DrawFrame == frames[frame_index + 1]

Next ==
    \/ KeySpace
    \/ KeyLeftBracket
    \/ KeyRightBracket
    \/ KeyUpBracket
    \/ Quit
    \/ Tick

Spec == Init /\ [][Next]_vars

\* =================================================================== claims

\* C1: the frame sequence is append-only and its entries are immutable:
\* over every step (tick, pause toggle, scrub start or release) len(frames)
\* does not decrease and every frame already recorded, its turn-marker
\* snapshot included, keeps its value.
C1_FramesAppendOnly ==
    [][ /\ Len(frames') >= Len(frames)
        /\ \A i \in 1..Len(frames) : frames'[i] = frames[i] ]_vars

\* C1 witness: several frames are recorded, the first frame holds fewer turn
\* markers than the live list now does, and the display was scrubbed back to 0.
C1_Witness ==
    /\ Len(frames) >= 3
    /\ Len(frames[1].instruction_markers) < Len(instruction_markers)
    /\ paused
    /\ frame_index = 0

\* C2: in every reachable state the display index is a valid index of the
\* frame sequence: 0 <= frame_index <= len(frames) - 1.
C2_DisplayIndexInRange ==
    /\ 0 <= frame_index
    /\ frame_index <= Len(frames) - 1

\* C2 witness: a scrub to the left is held at the first frame of a recording
\* of several frames, the state in which the next tick has to clamp.
C2_Witness ==
    /\ scrubbing
    /\ scrubbing_direction = -1
    /\ frame_index = 0
    /\ Len(frames) >= 3

\* C3: a tick taken while paused, scrubbing or finished appends no frame,
\* runs no integrator step and pops no command: the frames, the live pose,
\* the command state, the live markers and the path are unchanged; of the
\* playback state only the display index may change.
C3_NoAdvanceWhileHeld ==
    [][ (Tick /\ (paused \/ scrubbing \/ simulation_finished)) =>
            UNCHANGED <<frames, pose, command, instruction_markers, path,
                        paused, scrubbing, scrubbing_direction,
                        simulation_finished, sim_frame_index,
                        sim_frame_index_before_scrub>> ]_vars

\* C3 witness: ticks while scrubbing (paused or finished) have moved the
\* display index below the newest frame of a recording of several frames.
C3_Witness ==
    /\ scrubbing
    /\ paused \/ simulation_finished
    /\ Len(frames) >= 3
    /\ frame_index < Len(frames) - 2

\* C4: pausing a running simulation remembers the display index, which is
\* the newest frame; while paused the remembered index, the frames and the
\* live simulation state are kept whatever scrub events and ticks occur; the
\* pause toggle that resumes sets the display index back to the remembered
\* index, ends any scrub and leaves the live simulation state as it was.
C4_ResumeRestoresIndex ==
    [][ ~simulation_finished =>
          /\ (~paused /\ paused') =>
                /\ frame_index = Len(frames) - 1
                /\ sim_frame_index_before_scrub' = frame_index
          /\ (paused /\ paused') =>
                /\ sim_frame_index_before_scrub' = sim_frame_index_before_scrub
                /\ UNCHANGED <<frames, sim>>
          /\ (paused /\ ~paused') =>
                /\ frame_index' = sim_frame_index_before_scrub
                /\ frame_index' = Len(frames) - 1
                /\ ~scrubbing'
                /\ UNCHANGED <<frames, sim>> ]_vars

\* C4 witness: paused before the end of the run, scrubbed back to the first
\* frame and the scrub key released: the state a resume starts from.
C4_Witness ==
    /\ paused
    /\ ~simulation_finished
    /\ ~scrubbing
    /\ Len(frames) >= 3
    /\ frame_index = 0
    /\ sim_frame_index_before_scrub = Len(frames) - 1

\* ceil(a / b) for positive b
CeilDiv(a, b) == (a + b - 1) \div b

\* sum over the commands of ceil(targetDistance / stepSize)
RECURSIVE StepsOfRun(_, _)
StepsOfRun(ms, size) ==
    IF ms = <<>> THEN 0
    ELSE CeilDiv(Head(ms).rotations * wheel_circumference, size)
         + StepsOfRun(Tail(ms), size)

\* C5: once the simulation is finished the number of recorded frames is
\* 1 (the initial frame) plus the sum over all commands of
\* ceil(rotations * wheelCircumference / stepSize), for every command list.
C5_FrameCountOfRun ==
    simulation_finished => Len(frames) = 1 + StepsOfRun(movements, step_size)

\* C6: when a command is popped (with turn markers enabled), a marker at the
\* reference point is appended if and only if the command has a predecessor
\* in the list and its wheel selector differs from the predecessor's.
C6_MarkerIffSelectorChanged ==
    [][ (show_turns /\ movement_index' = movement_index + 1) =>
          LET k == movement_index'
              differs == k > 1 /\ movements[k].wheel # movements[k - 1].wheel
          IN  IF differs
              THEN instruction_markers' = Append(instruction_markers, <<x, y>>)
              ELSE instruction_markers' = instruction_markers ]_vars

\* the frame that ends command 1: the reference point at which command 2 starts
EndOfFirstCommand ==
    CHOOSE i \in 1..Len(frames) :
        frames[i].movement_index = 1 /\ frames[i].remaining_distance = 0

\* C7: the list [(forward, left, 1), (forward, right, 1)] run to Finished
\* (turn markers enabled) leaves exactly one turn marker, the reference
\* point at the moment command 2 started.
C7_OneMarkerAtBoundary ==
    ( /\ movements = << [direction |-> "forward", wheel |-> "left", rotations |-> 1],
                        [direction |-> "forward", wheel |-> "right", rotations |-> 1] >>
      /\ show_turns
      /\ simulation_finished )
    => /\ Len(instruction_markers) = 1
       /\ instruction_markers[1] =
              <<frames[EndOfFirstCommand].x, frames[EndOfFirstCommand].y>>

\* C8: the remaining distance is never negative; it changes only by an
\* integrator step, which takes exactly min(stepSize, remaining) off the
\* distance the step starts with (the target of the command popped in that
\* tick, else the current remainder); it never increases while a command is
\* active, and a command is popped only at remaining distance exactly zero.
C8_RemainingDistance ==
    /\ [](remaining_distance >= 0)
    /\ [][ /\ remaining_distance' # remaining_distance =>
                LET start == IF movement_index' # movement_index
                             THEN movements[movement_index'].rotations
                                      * wheel_circumference
                             ELSE remaining_distance
                IN  remaining_distance' = start - Min(step_size, start)
           /\ remaining_distance > 0 =>
                /\ remaining_distance' <= remaining_distance
                /\ movement_index' = movement_index
           /\ movement_index' # movement_index => remaining_distance = 0 ]_vars

\* C8 witness: a command has ended at remaining distance zero on a partial
\* step (the step size does not divide its target) after a full one.
C8_Witness ==
    /\ remaining_distance = 0
    /\ movement_index >= 1
    /\ step_size < wheel_circumference
    /\ wheel_circumference % step_size # 0
    /\ Len(frames) >= 3

\* C9: in every reachable state the simulation is marked finished exactly
\* when the remaining distance is zero and every command has been popped.
C9_FinishedIff ==
    simulation_finished <=>
        (remaining_distance = 0 /\ movement_index >= Len(movements))

\* C10: Finished is terminal: a finished simulation stays finished and no
\* frame is appended by any later step, while scrubbing stays available as
\* long as the loop runs: a bracket key starts a scrub in its direction, and
\* a tick during a scrub moves the display index one frame in that direction
\* within the record.
C10_FinishedTerminal ==
    /\ [][ simulation_finished =>
              (simulation_finished' /\ frames' = frames /\ UNCHANGED sim) ]_vars
    /\ []((simulation_finished /\ running) =>
            /\ ENABLED (KeyLeftBracket /\ scrubbing' /\ scrubbing_direction' = -1)
            /\ ENABLED (KeyRightBracket /\ scrubbing' /\ scrubbing_direction' = 1)
            /\ (scrubbing /\ frame_index + scrubbing_direction \in 0..(Len(frames) - 1))
                 => ENABLED (Tick /\ frame_index' = frame_index + scrubbing_direction))

\* C10 witness: finished and not paused, a scrub to the left is held and has
\* moved the display index back through the recorded frames.
C10_Witness ==
    /\ simulation_finished
    /\ ~paused
    /\ scrubbing
    /\ scrubbing_direction = -1
    /\ Len(frames) >= 3
    /\ frame_index = 1

\* the distance the integrator step between frame a and its successor b took:
\* what was left before the step (the target of the command popped in that
\* tick, else a's remainder) minus what is left in b
StepTaken(a, b) ==
    (IF b.movement_index # a.movement_index
     THEN movements[b.movement_index].rotations * wheel_circumference
     ELSE a.remaining_distance) - b.remaining_distance

\* C11: every integrator step of a 'both' command leaves the heading
\* unchanged and moves the reference point and the axle midpoint by the same
\* displacement, step * sign along the heading; so the heading recorded after
\* the command is the one recorded before it.
C11_StraightKeepsHeading ==
    \A i \in 1..(Len(frames) - 1) :
        LET a == frames[i]
            b == frames[i + 1]
        IN  b.active_wheel_command = "both" =>
              /\ b.heading = a.heading
              /\ Minus(b.x, a.x) = Minus(b.axle_x, a.axle_x)
              /\ Minus(b.y, a.y) = Minus(b.axle_y, a.axle_y)
              /\ StepTaken(a, b) > 0
              /\ Minus(b.x, a.x) =
                     Units(Sin(a.heading) * StepTaken(a, b) * b.direction_sign)
              /\ Minus(b.y, a.y) =
                     Units(Cos(a.heading) * StepTaken(a, b) * b.direction_sign)

\* C11 witness: a backward 'both' command has run to its end after a turn,
\* so that straight steps were taken at a heading other than the initial one.
C11_Witness ==
    /\ movement_index = 2
    /\ active_wheel_command = "both"
    /\ direction_sign = -1
    /\ remaining_distance = 0
    /\ frames[1].heading # heading
    /\ Len(frames) >= 4

\* left wheel contact point of a frame: axle - half_width * (cos h, -sin h)
LeftWheel(f) ==
    << Minus(f.axle_x, Widths(half_robot_width * Cos(f.heading))),
       Plus(f.axle_y, Widths(half_robot_width * Sin(f.heading))) >>

\* right wheel contact point of a frame: axle + half_width * (cos h, -sin h)
RightWheel(f) ==
    << Plus(f.axle_x, Widths(half_robot_width * Cos(f.heading))),
       Minus(f.axle_y, Widths(half_robot_width * Sin(f.heading))) >>

\* C12: during a single-wheel command the stationary wheel does not move:
\* across every integrator step of a 'left' command the right wheel contact
\* point (from the recorded axle position and heading) is the same before
\* and after, and across every step of a 'right' command the left one is.
C12_StationaryWheelFixed ==
    \A i \in 1..(Len(frames) - 1) :
        LET a == frames[i]
            b == frames[i + 1]
        IN  /\ b.active_wheel_command = "left" => RightWheel(b) = RightWheel(a)
            /\ b.active_wheel_command = "right" => LeftWheel(b) = LeftWheel(a)

\* C13: in every recorded frame the axle position is the reference point
\* minus axle_offset * (sin h, cos h), h being the heading stored in that
\* same frame.
C13_AxleOffsetRelation ==
    \A i \in 1..Len(frames) :
        LET f == frames[i]
        IN  /\ f.axle_x = Minus(f.x, Widths(axle_offset * Sin(f.heading)))
            /\ f.axle_y = Minus(f.y, Widths(axle_offset * Cos(f.heading)))

\* C14: scrubbing is idempotent on the display: over every step that starts
\* and ends in Paused or Finished the display index stays inside the frames
\* recorded so far, and the frame drawn afterwards is the frame that was
\* recorded at that index before the step; so going from index i to any k
\* and back to i shows the frame recorded at i again.
C14_ScrubShowsRecordedFrame ==
    [][ ((paused \/ simulation_finished) /\ (paused' \/ simulation_finished')) =>
            /\ frame_index' \in 0..(Len(frames) - 1)
            /\ DrawFrame' = frames[frame_index' + 1] ]_vars

\* C14 witness: paused in mid-run, the display index was scrubbed below the
\* newest frame and a scrub to the right is under way at an inner index; the
\* frame drawn differs from the newest one.
C14_Witness ==
    /\ paused
    /\ ~simulation_finished
    /\ scrubbing
    /\ scrubbing_direction = 1
    /\ 0 < frame_index
    /\ frame_index < Len(frames) - 1
    /\ DrawFrame # frames[Len(frames)]

\* ------------------------------------------------ start-up without validation
\* RobotParameters, InitialConditions and main() take their arguments as they
\* come: movement lists whose rotation counts may be zero or negative are
\* set up exactly like valid ones.
UnvalidatedMovement ==
    [direction : Directions, wheel : Wheels, rotations : (-1)..MaxRot]

UnvalidatedLists == SeqsUpTo(UnvalidatedMovement, MaxCmds)

InitUnvalidated ==
    /\ movements \in UnvalidatedLists
    /\ show_turns \in BOOLEAN
    /\ step_size \in StepSizes
    /\ x = Zero
    /\ y = Zero
    /\ heading \in InitHeadings
    /\ axle_x = Minus(x, Widths(axle_offset * Sin(heading)))
    /\ axle_y = Minus(y, Widths(axle_offset * Cos(heading)))
    /\ movement_index = 0
    /\ remaining_distance = 0
    /\ active_wheel_command = "None"
    /\ direction_sign = 1
    /\ previous_wheel = "None"
    /\ instruction_markers = <<>>
    /\ paused = FALSE
    /\ frame_index = 0
    /\ sim_frame_index = 0
    /\ simulation_finished = FALSE
    /\ scrubbing = FALSE
    /\ scrubbing_direction = 0
    /\ sim_frame_index_before_scrub = 0
    /\ frames = RecordFrame(<<>>, Snapshot(x, y, heading, axle_x, axle_y, 0, 0,
                                           "None", 1, <<>>))
    /\ path = <<<<x, y>>>>
    /\ running = TRUE

SpecUnvalidated == InitUnvalidated /\ [][Next]_vars

\* C15: a configuration with a negative rotation count (likewise a
\* non-positive wheel diameter, track width or step size) is rejected at
\* start-up: no frame is ever recorded and no tick runs for it.
C15_InvalidConfigRejected ==
    (\E i \in 1..Len(movements) : movements[i].rotations < 0) => frames = <<>>

\* C16: whenever the controller is Advancing (not paused, not scrubbing, not
\* finished) the display index is the index of the newest recorded frame,
\* len(frames) - 1: at start-up, after every tick and right after a resume.
C16_DisplayTracksNewest ==
    (~paused /\ ~scrubbing /\ ~simulation_finished) =>
        frame_index = Len(frames) - 1

\* C16 witness: Advancing again right after a resume in mid-run: the index
\* remembered by the pause is that of the newest of several frames.
C16_Witness ==
    /\ ~paused
    /\ ~scrubbing
    /\ ~simulation_finished
    /\ Len(frames) >= 3
    /\ sim_frame_index_before_scrub = Len(frames) - 1
    /\ frame_index = Len(frames) - 1

PositionsUpTo(i) == [k \in 1..(i + 1) |-> <<frames[k].x, frames[k].y>>]

\* C18: the path handed to the renderer consists of the reference-point
\* positions of frames 0 through the display index only (stated for
\* non-empty command lists, where every recorded frame carries one path
\* point): after scrubbing back to index k, later positions are not drawn.
C18_PathUpToDisplayIndex ==
    movements # <<>> => DrawPath = PositionsUpTo(frame_index)

\* +1 for a 'left' command, -1 for a 'right' one
TurnSign(wheel) == IF wheel = "left" THEN 1 ELSE -1

\* the frame before the first frame of command k (1-based): the last frame
\* recorded while fewer than k commands had been popped
FrameBeforeCommand(k) ==
    CHOOSE i \in 1..Len(frames) :
        /\ frames[i].movement_index < k
        /\ \A j \in (i + 1)..Len(frames) : frames[j].movement_index >= k

\* C19: every integrator step of a single-wheel command changes the heading
\* by theta = s * step / trackWidth (here s * step quarter turns), added for
\* 'left' and subtracted for 'right'; and over a completed single-wheel
\* command of target distance D the heading has changed by exactly
\* + s * D / trackWidth for 'left' and - s * D / trackWidth for 'right'.
C19_HeadingChangeOfTurn ==
    /\ \A i \in 1..(Len(frames) - 1) :
          LET a == frames[i]
              b == frames[i + 1]
          IN  b.active_wheel_command \in {"left", "right"} =>
                /\ StepTaken(a, b) > 0
                /\ b.heading - a.heading =
                     TurnSign(b.active_wheel_command) * b.direction_sign
                         * StepTaken(a, b)
    /\ \A j \in 2..Len(frames) :
          LET b == frames[j]
              k == b.movement_index
          IN  (b.active_wheel_command \in {"left", "right"}
                 /\ b.remaining_distance = 0) =>
                b.heading - frames[FrameBeforeCommand(k)].heading =
                    TurnSign(movements[k].wheel) * SignOf(movements[k].direction)
                        * movements[k].rotations * wheel_circumference

\* C19 witness: a backward 'right' command was completed in more than one
\* step as the second command of the run.
C19_Witness ==
    /\ movement_index = 2
    /\ active_wheel_command = "right"
    /\ direction_sign = -1
    /\ remaining_distance = 0
    /\ step_size < wheel_circumference
    /\ heading = frames[FrameBeforeCommand(2)].heading + wheel_circumference

\* ------------------------------------------------------------------ liveness
\* a loop iteration whose simulation block runs
AdvanceTick == Tick /\ AdvanceDue(paused, scrubbing, simulation_finished)

\* The loop runs its simulation block in every iteration in which the
\* controller is Advancing; ticks keep occurring, so an iteration that finds
\* the controller Advancing comes if it is Advancing again and again.
FairSpec == Spec /\ SF_vars(AdvanceTick)

\* C20: with positive step size and rotation counts, if the loop is not quit
\* and every pause is eventually followed by a resume, the simulation
\* eventually reaches Finished; commands are popped one at a time in list
\* order, each made the active command with its own direction, and Finished
\* is reached only with every command popped.
C20_EventuallyFinished ==
    /\ ([]running /\ []<>(~paused)) => <>simulation_finished
    /\ [][ movement_index' # movement_index =>
              /\ movement_index' = movement_index + 1
              /\ active_wheel_command' = movements[movement_index'].wheel
              /\ direction_sign' = SignOf(movements[movement_index'].direction) ]_vars
    /\ [](simulation_finished => movement_index = Len(movements))

\* C20 witness: a run of two commands reached Finished although it was
\* paused in mid-run (the index remembered by the pause is an inner frame).
C20_Witness ==
    /\ simulation_finished
    /\ ~paused
    /\ movement_index = 2
    /\ sim_frame_index_before_scrub >= 1
    /\ sim_frame_index_before_scrub < Len(frames) - 1

====
